---- MODULE Spec2Model ----
(***************************************************************************)
(* A model of http_control.py (python-http_control 0.9, Python 2).         *)
(*                                                                         *)
(* Two threads share unlocked state: the application thread calls the      *)
(* Server API (register, unregister, get, updated, warning, start, stop)   *)
(* and the worker thread (_httpd_Thread.run) serves one HTTP request at a  *)
(* time through Handler.do_GET / Handler.do_POST.  The shared state is the *)
(* registry dict, the class attributes _updated, last_contacted and        *)
(* _messages of the handler class, and the worker's running flag.          *)
(*                                                                         *)
(* Text is a tuple of one-character strings.  A Python object is a record  *)
(* [k |-> <runtime type>, v |-> <payload>].  Timestamps are kept as ranks: *)
(* the code only orders and subtracts them, so datetime.now() is "a value  *)
(* later than every timestamp stored so far".                              *)
(***************************************************************************)
EXTENDS Integers, Sequences, FiniteSets, TLC

(***************************************************************************)
(* Text and the conversions type_(str_) of Handler.do_POST                 *)
(***************************************************************************)
NL == "\n"

Digits == {"0", "1", "2", "3", "4", "5", "6", "7", "8", "9"}

Whitespace == {" ", NL}

DigitVal(c) ==
    CASE c = "0" -> 0 [] c = "1" -> 1 [] c = "2" -> 2 [] c = "3" -> 3
      [] c = "4" -> 4 [] c = "5" -> 5 [] c = "6" -> 6 [] c = "7" -> 7
      [] c = "8" -> 8 [] c = "9" -> 9

RECURSIVE LStrip(_)
LStrip(s) ==
    IF s # <<>> /\ Head(s) \in Whitespace THEN LStrip(Tail(s)) ELSE s

RECURSIVE RStrip(_)
RStrip(s) ==
    IF s # <<>> /\ s[Len(s)] \in Whitespace
    THEN RStrip(SubSeq(s, 1, Len(s) - 1))
    ELSE s

\* int() and float() ignore surrounding whitespace
Strip(s) == RStrip(LStrip(s))

\* the sign int() and float() accept in front of the digits
Unsigned(s) ==
    IF s # <<>> /\ Head(s) \in {"+", "-"} THEN Tail(s) ELSE s

Negative(s) == s # <<>> /\ Head(s) = "-"

AllDigits(s) == \A i \in 1..Len(s) : s[i] \in Digits

RECURSIVE DigitsValue(_)
DigitsValue(s) ==
    IF s = <<>> THEN 0
    ELSE 10 * DigitsValue(SubSeq(s, 1, Len(s) - 1)) + DigitVal(s[Len(s)])

\* int(s) succeeds: optional whitespace, optional sign, one or more digits
IsIntText(s) ==
    LET u == Unsigned(Strip(s)) IN u # <<>> /\ AllDigits(u)

\* the value of int(s) when it succeeds
IntParse(s) ==
    LET t == Strip(s)
        n == DigitsValue(Unsigned(t))
    IN  IF Negative(t) THEN 0 - n ELSE n

\* the positions of "." in s
Dots(s) == {i \in 1..Len(s) : s[i] = "."}

\* s without its "."
NoDots(s) == SelectSeq(s, LAMBDA c : c # ".")

\* float(s) succeeds on decimal text: digits with at most one ".", and at
\* least one digit (exponents, inf and nan need letters no text here has)
IsFloatText(s) ==
    LET u == Unsigned(Strip(s))
    IN  /\ Cardinality(Dots(u)) <= 1
        /\ NoDots(u) # <<>>
        /\ AllDigits(NoDots(u))

\* a float is <<m, e>>, the number m / 10^e, with e as small as possible
RECURSIVE FloatNorm(_, _)
FloatNorm(m, e) ==
    IF e > 0 /\ m % 10 = 0 THEN FloatNorm(m \div 10, e - 1) ELSE <<m, e>>

\* the value of float(s) when it succeeds
FloatParse(s) ==
    LET t == Strip(s)
        u == Unsigned(t)
        e == IF Dots(u) = {} THEN 0 ELSE Len(u) - (CHOOSE i \in Dots(u) : TRUE)
        m == DigitsValue(NoDots(u))
    IN  FloatNorm(IF Negative(t) THEN 0 - m ELSE m, e)

\* str_.split('\n'): the pieces between newlines, at least one piece
RECURSIVE Split(_)
Split(s) ==
    IF \A i \in 1..Len(s) : s[i] # NL THEN <<s>>
    ELSE LET i == CHOOSE j \in 1..Len(s) :
                      s[j] = NL /\ \A k \in 1..(j - 1) : s[k] # NL
         IN  <<SubSeq(s, 1, i - 1)>> \o Split(SubSeq(s, i + 1, Len(s)))

\* list(str_) and tuple(str_): one element per character
Chars(s) == [i \in 1..Len(s) |-> <<s[i]>>]

(***************************************************************************)
(* Python objects and the types of Handler.supported_types                 *)
(***************************************************************************)
PyBool(b) == [k |-> "bool", v |-> b]

PyInt(n) == [k |-> "int", v |-> n]

PyFloat(m, e) == [k |-> "float", v |-> FloatNorm(m, e)]

PyStr(s) == [k |-> "str", v |-> s]

PyUnicode(s) == [k |-> "unicode", v |-> s]

PyList(l) == [k |-> "list", v |-> l]

PyTuple(l) == [k |-> "tuple", v |-> l]

PyDict(d) == [k |-> "dict", v |-> d]

PySet(l) == [k |-> "set", v |-> l]

\* the value None
None == [k |-> "NoneType", v |-> <<>>]

\* the keys of Handler.supported_types
supported_types ==
    {"bool", "int", "long", "float", "str", "unicode", "tuple", "list", "dict"}

\* dict(zip(keys, values)): pairs up to the shorter list, a later pair
\* replacing an earlier one with the same key
DictZip(keys, values) ==
    LET n == IF Len(keys) < Len(values) THEN Len(keys) ELSE Len(values)
        K == {keys[i] : i \in 1..n}
    IN  [key \in K |->
            values[CHOOSE i \in 1..n :
                       keys[i] = key /\ \A j \in (i + 1)..n : keys[j] # key]]

\* type_(str_) raises ValueError
ConvertFails(type_, str_) ==
    \/ type_ \in {"int", "long"} /\ ~IsIntText(str_)
    \/ type_ = "float" /\ ~IsFloatText(str_)

\* type_(str_) for the types do_POST converts with the constructor
Convert(type_, str_) ==
    CASE type_ = "int"     -> PyInt(IntParse(str_))
      [] type_ = "long"    -> [k |-> "long", v |-> IntParse(str_)]
      [] type_ = "float"   -> [k |-> "float", v |-> FloatParse(str_)]
      [] type_ = "str"     -> PyStr(str_)
      [] type_ = "unicode" -> PyUnicode(str_)
      [] type_ = "tuple"   -> PyTuple(Chars(str_))
      [] type_ = "list"    -> PyList(Chars(str_))

(***************************************************************************)
(* The inputs the model draws from                                         *)
(***************************************************************************)
\* the names the application uses, in sorted order
NameSeq == <<"a", "b">>

Names == {NameSeq[i] : i \in 1..Len(NameSeq)}

\* '{0}_keys'.format(name) and '{0}_values'.format(name)
KeysField(name) == name \o "_keys"

ValuesField(name) == name \o "_values"

\* texts a client submits
T42 == <<"4", "2">>

Tx == <<"x">>

Tlines == <<"x", NL, "7">>

\* the Content-type headers of a POST; "" is a request without the header
ContentTypes ==
    {"application/x-www-form-urlencoded", "multipart/form-data", "text/plain", ""}

\* the most fields one submitted body holds
MaxFields == 2

\* the bodies of up to MaxFields fields <<name, text>> out of F, in the
\* order sent
Bodies(F) == UNION {[1..n -> F] : n \in 0..MaxFields}

\* the content types _parse_POST reads a form from
FormTypes == {"application/x-www-form-urlencoded", "multipart/form-data"}

\* the POST requests with fields out of F: a form of either encoding, or
\* a body that is no form, or one that states no content type
PostRequests(F) ==
    [ctype : FormTypes, body : Bodies(F)]
        \cup [ctype : ContentTypes \ FormTypes, body : {<<>>}]

\* the characters of the texts given to escape: the five reserved ones and
\* a plain one
EscChars == {"&", "<", ">", "\"", "'", "a"}

\* the longest text given to escape
MaxText == 3

\* the texts given to escape
EscTexts == UNION {[1..n -> EscChars] : n \in 0..MaxText}

\* the paths a client asks for
Paths == {"/", "/x"}

\* the hosts a Server is constructed with
Hosts == {"0.0.0.0", "192.168.0.7"}

\* the most warning calls the model follows in one run
MaxWarnings == 2

\* the most messages the application logs itself in one run
MaxLogged == 3

\* the messages the application logs
LogTexts == {"m1", "m2", "m3", "m4"}

\* the capacity N of the message log the specification describes (255 by
\* default), scaled down
LogMax == 2

(***************************************************************************)
(* State                                                                   *)
(***************************************************************************)
VARIABLES
    host,            \* Server.host
    registry,        \* Server.registry, shared with Handler.registry
    updatedFlag,     \* Handler._updated
    last_contacted,  \* Handler.last_contacted, 0 before it is first set
    messages,        \* Handler._messages: message -> [count, time]
    httpdt,          \* Server.httpdt: "unset", "thread" or "None"
    running,         \* _httpd_Thread.running of the thread started last
    wpc,             \* where the worker thread is
    backlog,         \* the connections waiting on the listening socket
    request,         \* the request the worker is serving
    post,            \* do_POST: the parsed body, field name -> texts
    items,           \* do_POST: sorted(cls.registry.items()), taken once
    idx,             \* do_POST: the entry of items the loop is at
    response,        \* the status line the worker sent last
    connection,      \* stop(): the state of its HTTPConnection
    apc,             \* where the application thread is
    ret,             \* what the application's last completed call returned
    hist             \* history of the run, read by the properties only

vars ==
    << host, registry, updatedFlag, last_contacted, messages, httpdt, running,
       wpc, backlog, request, post, items, idx, response, connection, apc,
       ret, hist >>

serverVars == <<host, httpdt, running, connection>>

postVars == <<request, post, items, idx>>

(***************************************************************************)
(* Time and the message log                                                *)
(***************************************************************************)
SetMax(S) == IF S = {} THEN 0 ELSE CHOOSE x \in S : \A y \in S : y <= x

\* the timestamps the program holds
Stamps(lc, msgs) == {lc} \cup {msgs[m][2] : m \in DOMAIN msgs}

\* datetime.datetime.now(): later than every timestamp held
Now == 1 + SetMax(Stamps(last_contacted, messages))

\* the rank of timestamp t among the timestamps held (0 stays "never set")
Rank(t, lc, msgs) ==
    Cardinality({u \in Stamps(lc, msgs) : 0 < u /\ u <= t})

RankedTime(lc, msgs) == Rank(lc, lc, msgs)

RankedMessages(lc, msgs) ==
    [m \in DOMAIN msgs |-> <<msgs[m][1], Rank(msgs[m][2], lc, msgs)>>]

\* the number of warning calls so far
Warnings == 
    LET RECURSIVE Sum(_)
        Sum(S) == IF S = {} THEN 0
                  ELSE LET m == CHOOSE x \in S : TRUE
                       IN  messages[m][1] + Sum(S \ {m})
    IN  Sum(DOMAIN messages)

\* the model follows a warning only while it is within its bound
CanWarn == Warnings < MaxWarnings

\* a warning that records nothing
warning_lost(msgs, msg, now) == msgs

\* Handler.warning: _messages[msg] = (count, time), the count one more than
\* before, or 1 for a message not yet in the dict
warning(msgs, msg, now) ==
    LET count_time == IF msg \in DOMAIN msgs
                      THEN <<msgs[msg][1] + 1, now>>
                      ELSE <<1, now>>
    IN  [m \in DOMAIN msgs \cup {msg} |->
            IF m = msg THEN count_time ELSE msgs[m]]

\* do_GET: the messages sorted by date, as the page lists them
RECURSIVE SortedMessages(_)
SortedMessages(msgs) ==
    IF DOMAIN msgs = {} THEN <<>>
    ELSE LET m == CHOOSE x \in DOMAIN msgs :
                      \A y \in DOMAIN msgs : msgs[x][2] <= msgs[y][2]
         IN  <<m>> \o SortedMessages([x \in DOMAIN msgs \ {m} |-> msgs[x]])

\* the timestamps are stored as their ranks
SetClock(lc, msgs) ==
    /\ last_contacted' = RankedTime(lc, msgs)
    /\ messages' = RankedMessages(lc, msgs)

(***************************************************************************)
(* What the properties read: the result of the application's last call and *)
(* the history of each name                                                *)
(***************************************************************************)
Returned(op, name, val, exc) ==
    [op |-> op, name |-> name, val |-> val, exc |-> exc]

\* no POST has written the entry of a name (since it was last removed)
NoSub == [w |-> FALSE, f |-> <<>>, val |-> None]

\* the texts a form body carries for a field name, in the order sent
FieldTexts(body, field) ==
    LET RECURSIVE Pick(_)
        Pick(i) == IF i > Len(body) THEN <<>>
                   ELSE (IF body[i][1] = field THEN <<body[i][2]>> ELSE <<>>)
                        \o Pick(i + 1)
    IN  Pick(1)

\* a request whose body is a form
IsForm(req) == req.ctype \in FormTypes

\* the form fields a request carries
FormBody(req) == IF IsForm(req) THEN req.body ELSE <<>>

\* what a form carries for a field: <<>> without the field, else <<text>>,
\* the text of the field where it stands last in the body
Carried(req, field) ==
    LET texts == FieldTexts(FormBody(req), field)
    IN  IF texts = <<>> THEN <<>> ELSE <<texts[Len(texts)]>>

\* a POST has written the entry of name: what its form carried for the name
\* and the object the POST stored
Sub(req, name, object_) ==
    [w |-> TRUE, f |-> Carried(req, name), val |-> object_]

\* hist after the application stored object_ under name
HistRegistered(name, object_) ==
    [hist EXCEPT !.reg[name] = <<object_>>]

\* hist after the application removed name
HistRemoved(name) ==
    [hist EXCEPT !.reg[name] = <<>>, !.sub[name] = NoSub]

\* hist after the POST in service wrote the entry of name
HistPosted(name, object_) ==
    [hist EXCEPT !.reg[name] = <<>>, !.sub[name] = Sub(request, name, object_),
                 !.wrote = @ \cup {name}]

(***************************************************************************)
(* The application thread: the Server API                                  *)
(***************************************************************************)
\* "registry[name] = (object_, type_)", a dict store
Store(reg, name, object_, type_) ==
    [n \in DOMAIN reg \cup {name} |->
        IF n = name THEN [obj |-> object_, type |-> type_] ELSE reg[n]]

\* a register that keeps the entry a name already has
RegisteredKeep(reg, name, object_, type_) ==
    IF name \in DOMAIN reg THEN reg ELSE Store(reg, name, object_, type_)

\* register: "self.registry[name] = (object_, type_)"
Registered(reg, name, object_, type_) == Store(reg, name, object_, type_)

\* unregister: "del self.registry[name]"
Deleted(reg, name) == [n \in DOMAIN reg \ {name} |-> reg[n]]

\* a set_updated that leaves the flag down
set_updated_dropped(updated) == FALSE

\* Handler.set_updated: "cls._updated = updated"
set_updated(updated) == updated

\* a register that stores an object of any type
register_unchecked(name, object_, type_) ==
    LET t == IF type_ = "" THEN object_.k ELSE type_
    IN  /\ apc = "idle"
        /\ registry' = Registered(registry, name, object_, t)
        /\ ret' = Returned("register", name, None, "")
        /\ hist' = HistRegistered(name, object_)
        /\ UNCHANGED <<updatedFlag, last_contacted, messages, wpc, backlog,
                       response, apc>>
        /\ UNCHANGED <<serverVars, postVars>>

\* Server.register(name, object_, type_)
register(name, object_, type_) ==
    LET t == IF type_ = "" THEN object_.k ELSE type_
    IN  /\ apc = "idle"
        /\ IF t \notin supported_types
           THEN /\ ret' = Returned("register", name, None, "NotImplementedError")
                /\ UNCHANGED <<registry, hist>>
           ELSE /\ registry' = Registered(registry, name, object_, t)
                /\ ret' = Returned("register", name, None, "")
                /\ hist' = HistRegistered(name, object_)
        /\ UNCHANGED <<updatedFlag, last_contacted, messages, wpc, backlog,
                       response, apc>>
        /\ UNCHANGED <<serverVars, postVars>>

\* an unregister without the test "if name in self.registry"
unregister_raises(name) ==
    /\ apc = "idle"
    /\ IF name \in DOMAIN registry
       THEN /\ registry' = Deleted(registry, name)
            /\ hist' = HistRemoved(name)
            /\ ret' = Returned("unregister", name, None, "")
       ELSE /\ ret' = Returned("unregister", name, None, "KeyError")
            /\ UNCHANGED <<registry, hist>>
    /\ UNCHANGED <<updatedFlag, last_contacted, messages, wpc, backlog,
                   response, apc>>
    /\ UNCHANGED <<serverVars, postVars>>

\* Server.unregister(name)
unregister(name) ==
    /\ apc = "idle"
    /\ IF name \in DOMAIN registry
       THEN /\ registry' = Deleted(registry, name)
            /\ hist' = HistRemoved(name)
            /\ UNCHANGED <<last_contacted, messages>>
       ELSE /\ CanWarn
            /\ SetClock(last_contacted,
                        warning(messages, <<"unregister", name>>, Now))
            /\ UNCHANGED <<registry, hist>>
    /\ ret' = Returned("unregister", name, None, "")
    /\ UNCHANGED <<updatedFlag, wpc, backlog, response, apc>>
    /\ UNCHANGED <<serverVars, postVars>>

\* a get that hands back the wrong half of the entry
FetchedType(reg, name) == PyStr(<<reg[name].type>>)

\* get: "(object_, type_) = self.registry[name]; return object_"
Fetched(reg, name) == reg[name].obj

\* a get that makes the entry it does not find
get_creates(name) ==
    /\ apc = "idle"
    /\ IF name \in DOMAIN registry
       THEN /\ SetClock(Now, messages)
            /\ ret' = Returned("get", name, Fetched(registry, name), "")
            /\ UNCHANGED registry
       ELSE /\ CanWarn
            /\ SetClock(Now, warning(messages, <<"get", name>>, Now + 1))
            /\ registry' = Store(registry, name, None, "NoneType")
            /\ ret' = Returned("get", name, None, "")
    /\ UNCHANGED <<updatedFlag, wpc, backlog, response, apc, hist>>
    /\ UNCHANGED <<serverVars, postVars>>

\* Server.get(name)
get(name) ==
    /\ apc = "idle"
    /\ IF name \in DOMAIN registry
       THEN /\ SetClock(Now, messages)
            /\ ret' = Returned("get", name, Fetched(registry, name), "")
       ELSE /\ CanWarn
            /\ SetClock(Now, warning(messages, <<"get", name>>, Now + 1))
            /\ ret' = Returned("get", name, None, "")
    /\ UNCHANGED <<registry, updatedFlag, wpc, backlog, response, apc, hist>>
    /\ UNCHANGED <<serverVars, postVars>>

\* Server.updated, Handler.updated: the test "if cls._updated"
updated_test ==
    /\ apc = "idle"
    /\ IF updatedFlag
       THEN /\ apc' = "updated_clear"
            /\ UNCHANGED <<ret, hist>>
       ELSE /\ ret' = Returned("updated", "", PyBool(FALSE), "")
            /\ hist' = [hist EXCEPT !.posts = FALSE]
            /\ UNCHANGED apc
    /\ UNCHANGED <<registry, updatedFlag, last_contacted, messages, wpc,
                   backlog, response>>
    /\ UNCHANGED <<serverVars, postVars>>

\* Handler.updated: "cls._updated = False; return True"
updated_clear ==
    /\ apc = "updated_clear"
    /\ updatedFlag' = FALSE
    /\ apc' = "idle"
    /\ ret' = Returned("updated", "", PyBool(TRUE), "")
    /\ hist' = [hist EXCEPT !.posts = FALSE]
    /\ UNCHANGED <<registry, last_contacted, messages, wpc, backlog, response>>
    /\ UNCHANGED <<serverVars, postVars>>

\* Server.warning(text), the application's own message
Server_warning(text) ==
    /\ apc = "idle"
    /\ Warnings < MaxLogged
    /\ SetClock(last_contacted, warning(messages, <<"app", text>>, Now))
    /\ ret' = Returned("warning", "", None, "")
    /\ UNCHANGED <<registry, updatedFlag, wpc, backlog, response, apc, hist>>
    /\ UNCHANGED <<serverVars, postVars>>

(***************************************************************************)
(* Handler.escape and Handler.unescape                                     *)
(***************************************************************************)
\* Handler._escapes: pairs (character, its escape), '&' first
_escapes ==
    << << <<"&">>, <<"&", "a", "p", "o", "s", ";">> >>,
       << <<"<">>, <<"&", "l", "t", ";">> >>,
       << <<">">>, <<"&", "g", "t", ";">> >>,
       << <<"\"">>, <<"&", "q", "u", "o", "t", ";">> >>,
       << <<"'">>, <<"&", "a", "p", "o", "s", ";">> >> >>

\* s.replace(old, new): the occurrences of old from the left, not overlapping
RECURSIVE Replace(_, _, _)
Replace(s, old, new) ==
    IF Len(s) < Len(old) THEN s
    ELSE IF SubSeq(s, 1, Len(old)) = old
    THEN new \o Replace(SubSeq(s, Len(old) + 1, Len(s)), old, new)
    ELSE <<Head(s)>> \o Replace(Tail(s), old, new)

\* Handler.escape: "for char_esc in cls._escapes: s = s.replace(...)"
escape(s) ==
    LET RECURSIVE Loop(_, _)
        Loop(t, i) ==
            IF i > Len(_escapes) THEN t
            ELSE Loop(Replace(t, _escapes[i][1], _escapes[i][2]), i + 1)
    IN  Loop(s, 1)

\* Handler.unescape: "for char_esc in reversed(cls._escapes): e = e.replace(...)"
unescape(e) ==
    LET RECURSIVE Loop(_, _)
        Loop(t, i) ==
            IF i < 1 THEN t
            ELSE Loop(Replace(t, _escapes[i][2], _escapes[i][1]), i - 1)
    IN  Loop(e, Len(_escapes))

\* the application calls Handler.escape(s)
call_escape(s) ==
    /\ apc = "idle"
    /\ ret' = Returned("escape", "", PyUnicode(escape(s)), "")
    /\ hist' = [hist EXCEPT !.text = s]
    /\ UNCHANGED <<registry, updatedFlag, last_contacted, messages, wpc, backlog,
                   response, apc>>
    /\ UNCHANGED <<serverVars, postVars>>

\* the application calls Handler.unescape(e)
call_unescape(e) ==
    /\ apc = "idle"
    /\ ret' = Returned("unescape", "", PyUnicode(unescape(e)), "")
    /\ UNCHANGED <<registry, updatedFlag, last_contacted, messages, wpc, backlog,
                   response, apc, hist>>
    /\ UNCHANGED <<serverVars, postVars>>

(***************************************************************************)
(* The application thread: start and stop                                  *)
(***************************************************************************)
\* the worker's listening socket is open: from HTTPServer(...) in
\* _httpd_Thread.__init__ until httpd.socket.close() in run
Listening == wpc \notin {"none", "exited"}

\* Server.start: the handler class is given the registry and the time, then
\* the thread is made (HTTPServer binds the port, which fails while an
\* earlier worker still holds it) and started
start ==
    /\ apc = "idle"
    /\ SetClock(Now, messages)
    /\ IF Listening
       THEN /\ ret' = Returned("start", "", None, "socket.error")
            /\ UNCHANGED <<httpdt, running, wpc, backlog>>
       ELSE /\ httpdt' = "thread"
            /\ running' = TRUE
            /\ wpc' = "check"
            /\ backlog' = {}
            /\ ret' = Returned("start", "", None, "")
    /\ UNCHANGED <<host, registry, updatedFlag, response, connection, apc, hist>>
    /\ UNCHANGED postVars

\* Server.stop: "self.httpdt.running = False"
stop_flag ==
    /\ apc = "idle"
    /\ IF httpdt = "thread"
       THEN /\ running' = FALSE
            /\ apc' = "stop_connect"
            /\ connection' = "new"
            /\ UNCHANGED ret
       ELSE /\ ret' = Returned("stop", "", None, "AttributeError")
            /\ UNCHANGED <<running, apc, connection>>
    /\ UNCHANGED <<host, httpdt, registry, updatedFlag, last_contacted, messages,
                   wpc, backlog, response, hist>>
    /\ UNCHANGED postVars

\* a connection to 127.0.0.1 reaches a listener bound to this host
Loopback(h) == h \in {"0.0.0.0", "127.0.0.1"}

\* Server.stop: HTTPConnection('127.0.0.1', port, timeout=1) and
\* connection.request('HEAD', '/'); refused without a listener there
stop_connect ==
    /\ apc = "stop_connect"
    /\ IF Listening /\ Loopback(host)
       THEN /\ backlog' = backlog \cup {"self"}
            /\ connection' = "sent"
            /\ apc' = "stop_wait"
       ELSE /\ connection' = "refused"
            /\ apc' = "stop_finish"
            /\ UNCHANGED backlog
    /\ UNCHANGED <<host, httpdt, running, registry, updatedFlag, last_contacted,
                   messages, wpc, response, ret, hist>>
    /\ UNCHANGED postVars

\* Server.stop: connection.getresponse() returns the worker's answer, or
\* raises because the worker closed the socket
stop_response ==
    /\ apc = "stop_wait"
    /\ connection \in {"answered", "reset"}
    /\ apc' = "stop_finish"
    /\ UNCHANGED <<host, httpdt, running, registry, updatedFlag, last_contacted,
                   messages, wpc, backlog, response, connection, ret, hist>>
    /\ UNCHANGED postVars

\* Server.stop: connection.getresponse() raises socket.timeout after 1 s
\* without an answer; the connection is given up where it is
stop_timeout ==
    /\ apc = "stop_wait"
    /\ connection = "sent"
    /\ connection' = "abandoned"
    /\ apc' = "stop_finish"
    /\ UNCHANGED <<host, httpdt, running, registry, updatedFlag, last_contacted,
                   messages, wpc, backlog, response, ret, hist>>
    /\ UNCHANGED postVars

\* Server.stop: "self.httpdt = None" and the return
stop_return ==
    /\ apc = "stop_finish"
    /\ httpdt' = "None"
    /\ apc' = "idle"
    /\ ret' = Returned("stop", "", None, "")
    /\ UNCHANGED <<host, running, registry, updatedFlag, last_contacted,
                   messages, wpc, backlog, response, connection, hist>>
    /\ UNCHANGED postVars

(***************************************************************************)
(* The worker thread: _httpd_Thread.run                                    *)
(***************************************************************************)
\* a client connects to the listening socket and sends a request
client_connect ==
    /\ Listening
    /\ "client" \notin backlog
    /\ backlog' = backlog \cup {"client"}
    /\ UNCHANGED <<registry, updatedFlag, last_contacted, messages, wpc,
                   response, apc, ret, hist>>
    /\ UNCHANGED <<serverVars, postVars>>

\* run: "while self.running", and past the loop "self.httpd.socket.close()",
\* which resets the connections still waiting
run_check ==
    /\ wpc = "check"
    /\ IF running
       THEN /\ wpc' = "accept"
            /\ UNCHANGED <<backlog, connection>>
       ELSE /\ wpc' = "exited"
            /\ backlog' = {}
            /\ connection' = IF connection = "sent" THEN "reset" ELSE connection
    /\ response' = 0
    /\ hist' = [hist EXCEPT !.wrote = {}, !.failed = {}]
    /\ UNCHANGED <<host, httpdt, running, registry, updatedFlag, last_contacted,
                   messages, apc, ret>>
    /\ UNCHANGED postVars

\* handle_request takes stop's HEAD request: the handler has no do_HEAD, so
\* the answer is 501; a connection stop gave up gets no answer
serve_HEAD ==
    /\ wpc = "accept"
    /\ "self" \in backlog
    /\ backlog' = backlog \ {"self"}
    /\ IF connection = "sent"
       THEN connection' = "answered" /\ response' = 501
       ELSE UNCHANGED <<connection, response>>
    /\ wpc' = "check"
    /\ UNCHANGED <<host, httpdt, running, registry, updatedFlag, last_contacted,
                   messages, apc, ret, hist>>
    /\ UNCHANGED postVars

\* Handler.do_GET
do_GET(path) ==
    /\ wpc = "accept"
    /\ "client" \in backlog
    /\ backlog' = backlog \ {"client"}
    /\ response' = IF path # "/" THEN 301 ELSE 200
    /\ wpc' = "check"
    /\ UNCHANGED <<registry, updatedFlag, last_contacted, messages, apc, ret,
                   hist>>
    /\ UNCHANGED <<serverVars, postVars>>

(***************************************************************************)
(* The worker thread: Handler.do_POST                                      *)
(***************************************************************************)
NoRequest == [ctype |-> "", body |-> <<>>]

\* _parse_POST raises: self.headers['content-type'] of a request without
\* the header
ParseRaises(req) == req.ctype = ""

\* the fields parse_qs(..., keep_blank_values=False) keeps of a urlencoded
\* body, and the fields cgi.parse_multipart keeps of a multipart one
KeptFields(req) ==
    IF req.ctype = "application/x-www-form-urlencoded"
    THEN SelectSeq(req.body, LAMBDA fld : fld[2] # <<>>)
    ELSE IF req.ctype = "multipart/form-data"
    THEN req.body
    ELSE <<>>

\* _parse_POST: a dict, field name -> the list of its values
_parse_POST(req) ==
    LET kept == KeptFields(req)
    IN  [field \in {kept[i][1] : i \in 1..Len(kept)} |-> FieldTexts(kept, field)]

\* sorted(cls.registry.items()): a list made once, before the loop
SortedItems(reg) ==
    LET RECURSIVE From(_)
        From(i) ==
            IF i > Len(NameSeq) THEN <<>>
            ELSE (IF NameSeq[i] \in DOMAIN reg
                  THEN <<[name |-> NameSeq[i], obj |-> reg[NameSeq[i]].obj,
                          type |-> reg[NameSeq[i]].type]>>
                  ELSE <<>>) \o From(i + 1)
    IN  From(1)

\* list_[0]
First(list_) == list_[1]

\* list_[-1]
Last(list_) == list_[Len(list_)]

\* do_POST is entered for a client's request: "cls.set_updated(True)"
do_POST_begin(req) ==
    /\ wpc = "accept"
    /\ "client" \in backlog
    /\ backlog' = backlog \ {"client"}
    /\ updatedFlag' = set_updated(TRUE)
    /\ request' = req
    /\ post' = <<>>
    /\ items' = <<>>
    /\ idx' = 1
    /\ wpc' = "post_parse"
    /\ hist' = [hist EXCEPT !.posts = TRUE, !.wrote = {}, !.failed = {}]
    /\ UNCHANGED <<registry, last_contacted, messages, response, apc, ret>>
    /\ UNCHANGED serverVars

\* "post = self._parse_POST()" and the list the loop runs over; an exception
\* of _parse_POST ends the handler without an answer
do_POST_parse ==
    /\ wpc = "post_parse"
    /\ IF ParseRaises(request)
       THEN /\ wpc' = "check"
            /\ response' = 0
            /\ UNCHANGED <<post, items>>
       ELSE /\ post' = _parse_POST(request)
            /\ items' = SortedItems(registry)
            /\ wpc' = "post_loop"
            /\ UNCHANGED response
    /\ UNCHANGED <<registry, updatedFlag, last_contacted, messages, backlog,
                   request, idx, apc, ret, hist>>
    /\ UNCHANGED serverVars

\* characters outside ASCII
NonAscii == {"U+00E9"}

\* str_.encode('ascii', 'replace')
AsciiReplace(str_) ==
    [i \in 1..Len(str_) |-> IF str_[i] \in NonAscii THEN "?" ELSE str_[i]]

\* the text do_POST reads for an entry: list_[-1].decode('utf-8'), and
\* under Python 2 encoded to ASCII for a str entry
EntryText(field, type_) ==
    IF type_ = "str" THEN AsciiReplace(Last(post[field])) ELSE Last(post[field])

\* a pass stores object_ for name: "cls.registry[name] = (object_, type_)"
PassStores(name, object_, type_) ==
    /\ registry' = Store(registry, name, object_, type_)
    /\ hist' = HistPosted(name, object_)
    /\ UNCHANGED <<last_contacted, messages>>

\* a pass that drops the entry it has nothing to store for
PassForgets ==
    /\ registry' = Deleted(registry, items[idx].name)
    /\ UNCHANGED <<hist, last_contacted, messages>>

\* a pass stores nothing
PassSkips == UNCHANGED <<registry, hist, last_contacted, messages>>

\* "except ValueError as e: cls.warning(e)"
PassWarns(name, type_, str_) ==
    /\ CanWarn
    /\ SetClock(last_contacted,
                warning(messages, <<"ValueError", type_, str_>>, Now))
    /\ hist' = [hist EXCEPT !.failed = @ \cup {name}]
    /\ UNCHANGED registry

\* the types the first branch of the loop body takes
ConvertedTypes ==
    {"int", "long", "float", "str", "unicode", "tuple", "list", "dict"}

\* one pass of the loop "for (name, (object_, type_)) in sorted(...)"; for a
\* tuple or list with text the pass stops after storing the split lines,
\* and do_POST_convert completes it
do_POST_entry ==
    /\ wpc = "post_loop"
    /\ idx <= Len(items)
    /\ LET name == items[idx].name
           type_ == items[idx].type
       IN  IF type_ \in ConvertedTypes
           THEN IF type_ = "dict"
                THEN /\ IF KeysField(name) \in DOMAIN post
                           /\ ValuesField(name) \in DOMAIN post
                        THEN LET keys == Split(EntryText(KeysField(name), type_))
                                 values ==
                                     Split(EntryText(ValuesField(name), type_))
                             IN  PassStores(name, PyDict(DictZip(keys, values)),
                                            type_)
                        ELSE PassSkips
                     /\ idx' = idx + 1
                     /\ UNCHANGED wpc
                ELSE IF name \in DOMAIN post
                THEN LET str_ == EntryText(name, type_)
                     IN  IF type_ \in {"tuple", "list"}
                         THEN /\ PassStores(name, PyList(Split(str_)), type_)
                              /\ IF str_ # <<>>
                                 THEN wpc' = "post_convert" /\ UNCHANGED idx
                                 ELSE idx' = idx + 1 /\ UNCHANGED wpc
                         ELSE /\ IF str_ # <<>>
                                 THEN IF ConvertFails(type_, str_)
                                      THEN PassWarns(name, type_, str_)
                                      ELSE PassStores(name, Convert(type_, str_),
                                                      type_)
                                 ELSE PassSkips
                              /\ idx' = idx + 1
                              /\ UNCHANGED wpc
                ELSE /\ PassSkips
                     /\ idx' = idx + 1
                     /\ UNCHANGED wpc
           ELSE IF type_ = "bool"
           THEN /\ PassStores(name, PyBool(name \in DOMAIN post), type_)
                /\ idx' = idx + 1
                /\ UNCHANGED wpc
           ELSE \* raise NotImplementedError: the handler ends
                /\ PassSkips
                /\ wpc' = "check"
                /\ UNCHANGED idx
    /\ UNCHANGED <<updatedFlag, backlog, request, post, items, response, apc,
                   ret>>
    /\ UNCHANGED serverVars

\* the rest of a pass for a tuple or list: "if str_ != ''" then
\* "cls.registry[name] = (type_(str_), type_)"
do_POST_convert ==
    /\ wpc = "post_convert"
    /\ LET name == items[idx].name
           type_ == items[idx].type
       IN  PassStores(name, Convert(type_, EntryText(name, type_)), type_)
    /\ idx' = idx + 1
    /\ wpc' = "post_loop"
    /\ UNCHANGED <<updatedFlag, backlog, request, post, items, response, apc,
                   ret>>
    /\ UNCHANGED serverVars

\* past the loop: send_response(303), the Location header, and the sleep
do_POST_send ==
    /\ wpc = "post_loop"
    /\ idx > Len(items)
    /\ response' = 303
    /\ wpc' = "check"
    /\ request' = NoRequest
    /\ post' = <<>>
    /\ items' = <<>>
    /\ idx' = 1
    /\ UNCHANGED <<registry, updatedFlag, last_contacted, messages, backlog,
                   apc, ret, hist>>
    /\ UNCHANGED serverVars

(***************************************************************************)
(* The specifications                                                      *)
(***************************************************************************)
EmptyDict == [n \in {} |-> None]

\* Server.__init__: an empty registry, set_updated(False); the class's
\* _messages dict is empty and no thread exists
Created(h) ==
    /\ host = h
    /\ registry = EmptyDict
    /\ updatedFlag = FALSE
    /\ last_contacted = 0
    /\ messages = EmptyDict
    /\ httpdt = "unset"
    /\ running = FALSE
    /\ wpc = "none"
    /\ backlog = {}
    /\ request = NoRequest
    /\ post = <<>>
    /\ items = <<>>
    /\ idx = 1
    /\ response = 0
    /\ connection = "none"
    /\ apc = "idle"
    /\ ret = Returned("__init__", "", None, "")
    /\ hist = [reg |-> [n \in Names |-> <<>>], sub |-> [n \in Names |-> NoSub],
               posts |-> FALSE, wrote |-> {}, failed |-> {}, text |-> <<>>]

\* a Server on the default host
Init == Created("0.0.0.0")

\* what the application registers "a" with; type_ "" stands for type_=None
OneArgs ==
    { <<PyInt(1), "">>, <<PyFloat(5, 1), "">>, <<PyInt(1), "float">>,
      <<PySet(<<Tx>>), "">> }

\* the fields a client submits for "a": numbers, or nothing typed in
OneFields == { <<"a", T42>>, <<"a", <<"7">>>>, <<"a", <<>>>> }

\* One entry.  The application registers "a", reads and removes it while
\* it is registered, and polls updated(); clients submit numbers.
Next ==
    \/ \E args \in OneArgs : register("a", args[1], args[2])
    \/ "a" \in DOMAIN registry /\ unregister("a")
    \/ "a" \in DOMAIN registry /\ get("a")
    \/ updated_test
    \/ updated_clear
    \/ start
    \/ client_connect
    \/ run_check
    \/ \E path \in Paths : do_GET(path)
    \/ \E req \in PostRequests(OneFields) : do_POST_begin(req)
    \/ do_POST_parse
    \/ do_POST_entry
    \/ do_POST_send

Spec == Init /\ [][Next]_vars

\* what the application registers "a" and "b" with
TwoArgs(name) ==
    IF name = "a" THEN { <<PyInt(1), "">> }
    ELSE { <<PyBool(TRUE), "">>, <<PyUnicode(<<"h", "i">>), "">> }

\* the fields a client submits for "a" and "b"
TwoFields == { <<"a", T42>>, <<"b", Tx>>, <<"b", <<>>>> }

\* Two entries.  The application registers "a" as a number and "b" as a
\* checkbox or a text and reads them; clients submit forms over both.
NextTwo ==
    \/ \E name \in Names : \E args \in TwoArgs(name) :
           register(name, args[1], args[2])
    \/ \E name \in Names : name \in DOMAIN registry /\ get(name)
    \/ start
    \/ client_connect
    \/ run_check
    \/ \E req \in PostRequests(TwoFields) : do_POST_begin(req)
    \/ do_POST_parse
    \/ do_POST_entry
    \/ do_POST_send

SpecTwo == Init /\ [][NextTwo]_vars

\* what the application registers "a" and "b" with where clients mistype
FailArgs(name) ==
    IF name = "a" THEN <<PyInt(1), "">> ELSE <<PyUnicode(<<"h", "i">>), "">>

\* the fields a client submits: a number, and texts that are none
FailFields == { <<"a", T42>>, <<"a", Tx>>, <<"b", Tx>> }

\* Two entries, a number and a text.  Clients submit text for both, which
\* the number's entry cannot take.
NextFail ==
    \/ \E name \in Names : register(name, FailArgs(name)[1], FailArgs(name)[2])
    \/ \E name \in Names : name \in DOMAIN registry /\ unregister(name)
    \/ start
    \/ client_connect
    \/ run_check
    \/ \E req \in PostRequests(FailFields) : do_POST_begin(req)
    \/ do_POST_parse
    \/ do_POST_entry
    \/ do_POST_send

SpecFail == Init /\ [][NextFail]_vars

\* one object of every supported type, and one by an explicit type_
KindArgs ==
    { <<PyBool(TRUE), "">>, <<PyInt(1), "">>, <<PyInt(1), "long">>,
      <<PyFloat(5, 1), "">>, <<PyStr(<<"h", "i">>), "">>,
      <<PyUnicode(<<"h", "i">>), "">>, <<PyTuple(<<Tx>>), "">>,
      <<PyList(<<Tx>>), "">>, <<PyDict(EmptyDict), "">> }

\* the fields a client submits for "a" of any type
KindFields == { <<"a", <<"7">>>> }

\* One entry of every type.  The application registers "a" and reads it;
\* clients submit text for it.
NextKinds ==
    \/ \E args \in KindArgs : register("a", args[1], args[2])
    \/ "a" \in DOMAIN registry /\ get("a")
    \/ start
    \/ client_connect
    \/ run_check
    \/ \E req \in PostRequests(KindFields) : do_POST_begin(req)
    \/ do_POST_parse
    \/ do_POST_entry
    \/ do_POST_convert
    \/ do_POST_send

SpecKinds == Init /\ [][NextKinds]_vars

\* a Server on any of the hosts
InitLife == \E h \in Hosts : Created(h)

\* The life of the worker.  The application starts and stops the server;
\* clients fetch the page.
NextLife ==
    \/ start
    \/ stop_flag
    \/ stop_connect
    \/ stop_response
    \/ stop_timeout
    \/ stop_return
    \/ client_connect
    \/ run_check
    \/ serve_HEAD
    \/ \E path \in Paths : do_GET(path)

SpecLife == InitLife /\ [][NextLife]_vars

\* The threads keep running: the worker takes its next step when it has
\* one and stop() takes its own.  Nothing makes a client connect.
FairLife ==
    /\ InitLife
    /\ [][NextLife]_vars
    /\ WF_vars(run_check)
    /\ WF_vars(serve_HEAD)
    /\ WF_vars(\E path \in Paths : do_GET(path))
    /\ WF_vars(stop_connect)
    /\ WF_vars(stop_response \/ stop_timeout)
    /\ WF_vars(stop_return)

\* The message log.  The application logs messages and asks for names it
\* never registered; clients fetch the page.
NextLog ==
    \/ \E text \in LogTexts : Server_warning(text)
    \/ get("b")
    \/ unregister("b")
    \/ start
    \/ client_connect
    \/ run_check
    \/ \E path \in Paths : do_GET(path)

SpecLog == Init /\ [][NextLog]_vars

(***************************************************************************)
(* Properties                                                              *)
(***************************************************************************)
\* the entry of name was last written by a POST whose form carried text
\* for it, and the application has not registered or removed name since
PostedLast(name) ==
    /\ name \in DOMAIN registry
    /\ hist.sub[name].w
    /\ hist.sub[name].f # <<>>
    /\ hist.reg[name] = <<>>

\* the text the form carried for name
PostedText(name) == hist.sub[name].f[1]

\* C1: after a POST whose form carries numeric text t for a registered Int
\* name, with no register or unregister of the name since, get(name) returns
\* the integer int(t).
C1_GetReturnsPostedInt ==
    [][\A name \in Names :
          (/\ get(name)
           /\ PostedLast(name)
           /\ registry[name].type = "int"
           /\ IsIntText(PostedText(name)))
          => ret'.val = PyInt(IntParse(PostedText(name)))]_vars

\* C1 witness: POST a=42 for the Int entry "a", then get('a') returned 42
C1_Witness ==
    /\ ret = Returned("get", "a", PyInt(42), "")
    /\ PostedLast("a")
    /\ PostedText("a") = T42
    /\ registry["a"].type = "int"

\* a call of updated() returns in this step
UpdatedReturns ==
    \/ updated_test /\ apc' = "idle"
    \/ updated_clear

\* C2: updated() is test-and-clear: it returns true iff a POST was accepted
\* since the previous updated() call (or since construction); the call
\* right after a true result, with no POST in between, returns false.
C2_UpdatedTestAndClear ==
    [][UpdatedReturns =>
          /\ ret'.val = PyBool(hist.posts)
          /\ ~hist'.posts
          /\ (ret = Returned("updated", "", PyBool(TRUE), "") /\ ~hist.posts
                  => ret'.val = PyBool(FALSE))]_vars

\* C2 witness: a POST was accepted, updated() returned true and cleared the
\* flag, and the POST is still being served
C2_Witness ==
    /\ ret = Returned("updated", "", PyBool(TRUE), "")
    /\ ~updatedFlag
    /\ ~hist.posts
    /\ wpc = "post_loop"

\* a POST stored a value for name, and the application then registered
\* name with a different value
RegisteredOverPosted(name) ==
    /\ name \in DOMAIN registry
    /\ hist.sub[name].w
    /\ hist.reg[name] # <<>>
    /\ hist.reg[name][1] # hist.sub[name].val

C4_Original == [][stop_return => wpc = "exited" /\ ~Listening]_vars

\* C5 as stated: once the running flag is false the worker eventually
\* exits, also when stop()'s request to itself fails.
C5_Original == (~running /\ Listening) ~> (wpc = "exited")

\* the entry of name was last written by a POST, and the application has
\* not registered or removed name since
WrittenLast(name) ==
    /\ name \in DOMAIN registry
    /\ hist.sub[name].w
    /\ hist.reg[name] = <<>>

\* C6 as stated: after a POST is applied to a registered Bool name,
\* get(name) is true iff the form carried a field of that name, whatever
\* the field's content.
C6_Original ==
    [][\A name \in Names :
          (/\ get(name)
           /\ WrittenLast(name)
           /\ registry[name].type = "bool")
          => ret'.val = PyBool(hist.sub[name].f # <<>>)]_vars

\* the application registered name, and no POST has written its entry since
RegisteredLast(name) ==
    /\ name \in DOMAIN registry
    /\ hist.reg[name] # <<>>

\* C7: after register(name, v) with v of a supported type and nothing
\* stored for name by a POST since, get(name) returns v, and so does every
\* further get(name).
C7_GetReturnsRegistered ==
    [][\A name \in Names :
          get(name) /\ RegisteredLast(name)
          => /\ ret'.val = hist.reg[name][1]
             /\ RegisteredLast(name)']_vars

\* C7 witness: register('a', [x]) while a POST carrying a=x is in service
\* that has not reached the entry, and get('a') returned [x]
C7_Witness ==
    /\ ret = Returned("get", "a", PyList(<<Tx>>), "")
    /\ RegisteredLast("a")
    /\ registry["a"].type = "list"
    /\ wpc = "post_loop"
    /\ "a" \in DOMAIN post

\* the POST in service will store an object for the entry items[i]
WillStore(i) ==
    LET name == items[i].name
        type_ == items[i].type
    IN  \/ type_ = "bool"
        \/ /\ name \in DOMAIN post
           /\ Last(post[name]) # <<>>
           /\ ~ConvertFails(type_, Last(post[name]))

\* the POST in service has stored some of its fields and not yet others
PartlyApplied ==
    /\ wpc = "post_loop"
    /\ hist.wrote # {}
    /\ \E i \in idx..Len(items) : WillStore(i)

\* C8 as stated: the application's operations and the handling of a POST
\* exclude each other: no get() runs while some fields of one POST are
\* applied and others are not.
C8_Original ==
    [][\A name \in Names : get(name) => ~PartlyApplied]_vars

\* the text of the form in service for name is no number of the type of the
\* entry the loop is at
FailsToParse(name) ==
    /\ wpc = "post_loop"
    /\ idx <= Len(items)
    /\ items[idx].name = name
    /\ Carried(request, name) # <<>>
    /\ LET t == Carried(request, name)[1]
       IN  /\ t # <<>>
           /\ \/ items[idx].type \in {"int", "long"} /\ ~IsIntText(t)
              \/ items[idx].type = "float" /\ ~IsFloatText(t)

\* the number of times the log counts a message
Counted(msgs, msg) == IF msg \in DOMAIN msgs THEN msgs[msg][1] ELSE 0

\* the form in service carries for the entry items[i] a text its type takes
Appliable(i) ==
    /\ Carried(request, items[i].name) # <<>>
    /\ LET t == Carried(request, items[i].name)[1]
       IN  t # <<>> /\ ~ConvertFails(items[i].type, t)

\* C9: a submitted text that fails to parse as its entry's type leaves the
\* registry as it is and adds a warning to the log; the loop goes on, the
\* fields of the same POST that do parse are stored, and the redirect is
\* sent.
C9_ParseFailureSkipsEntry ==
    [][/\ \A name \in Names :
             do_POST_entry /\ FailsToParse(name)
             => LET msg == <<"ValueError", items[idx].type,
                             Carried(request, name)[1]>>
                IN  /\ registry' = registry
                    /\ Counted(messages', msg) = Counted(messages, msg) + 1
                    /\ Warnings' = Warnings + 1
                    /\ wpc' = "post_loop"
                    /\ idx' = idx + 1
       /\ do_POST_send /\ hist.failed # {}
             => /\ response' = 303
                /\ \A i \in 1..Len(items) :
                       Appliable(i) => items[i].name \in hist.wrote]_vars

\* C9 witness: a=1 and b=hi registered, POST a=x, b=x: answered 303 with
\* a still 1, b now x, and the warning in the log
C9_Witness ==
    /\ wpc = "check"
    /\ response = 303
    /\ hist.failed = {"a"}
    /\ "b" \in hist.wrote
    /\ Names \subseteq DOMAIN registry
    /\ registry["a"].obj = PyInt(1)
    /\ registry["b"].obj = PyUnicode(Tx)
    /\ Counted(messages, <<"ValueError", "int", Tx>>) = 1

\* C10 as stated: the message log never holds more than N entries.
C10_Original == Cardinality(DOMAIN messages) <= LogMax

\* Escaping.  The application escapes a text and unescapes what it got.
NextEscape ==
    \/ \E s \in EscTexts : call_escape(s)
    \/ ret.op = "escape" /\ call_unescape(ret.val.v)

SpecEscape == Init /\ [][NextEscape]_vars

\* C11 as stated: unescape(escape(s)) = s for every text s over the
\* reserved characters & < > " ' and plain ones.
C11_Original ==
    [][ret.op = "escape" /\ call_unescape(ret.val.v)
          => ret'.val = PyUnicode(hist.text)]_vars

\* what the application registers where it also misuses the API: an
\* integer, a set, and an integer under the type set
MissArgs == { <<PyInt(1), "">>, <<PySet(<<Tx>>), "">>, <<PyInt(1), "set">> }

\* the field a client submits meanwhile
MissFields == { <<"a", T42>> }

\* Misuse.  The application registers "a", also with types that are not
\* supported, and reads and removes names whether registered or not.
NextMiss ==
    \/ \E args \in MissArgs : register("a", args[1], args[2])
    \/ \E name \in Names : unregister(name)
    \/ \E name \in Names : get(name)
    \/ start
    \/ client_connect
    \/ run_check
    \/ \E req \in PostRequests(MissFields) : do_POST_begin(req)
    \/ do_POST_parse
    \/ do_POST_entry
    \/ do_POST_send

SpecMiss == Init /\ [][NextMiss]_vars

\* C12: unregister(name) of a name not in the registry returns without an
\* exception, adds a warning to the log and leaves the registry and the
\* updated flag as they are, on every such call.
C12_UnregisterMissingWarns ==
    [][\A name \in Names :
          unregister(name) /\ name \notin DOMAIN registry
          => /\ ret' = Returned("unregister", name, None, "")
             /\ Counted(messages', <<"unregister", name>>)
                    = Counted(messages, <<"unregister", name>>) + 1
             /\ Warnings' = Warnings + 1
             /\ registry' = registry
             /\ updatedFlag' = updatedFlag]_vars

\* C12 witness: unregister('b') returned for the second time, with "a"
\* registered and the updated flag up
C12_Witness ==
    /\ ret = Returned("unregister", "b", None, "")
    /\ Counted(messages, <<"unregister", "b">>) = 2
    /\ DOMAIN registry = {"a"}
    /\ updatedFlag

\* C13: get(name) of a name not in the registry returns None without an
\* exception, adds a warning to the log and leaves the registry as it is.
C13_GetMissingReturnsNone ==
    [][\A name \in Names :
          get(name) /\ name \notin DOMAIN registry
          => /\ ret' = Returned("get", name, None, "")
             /\ Counted(messages', <<"get", name>>)
                    = Counted(messages, <<"get", name>>) + 1
             /\ Warnings' = Warnings + 1
             /\ registry' = registry]_vars

\* C13 witness: get('b') returned None with only "a" registered
C13_Witness ==
    /\ ret = Returned("get", "b", None, "")
    /\ Counted(messages, <<"get", "b">>) = 1
    /\ DOMAIN registry = {"a"}
    /\ registry["a"].obj = PyInt(1)

\* the type register takes for its arguments <<object_, type_>>
KindOf(args) == IF args[2] = "" THEN args[1].k ELSE args[2]

\* C14: register with a type, given or inferred, that is not supported
\* raises NotImplementedError and leaves the registry as it is.
C14_RegisterUnsupportedRaises ==
    [][\A name \in Names : \A args \in MissArgs :
          register(name, args[1], args[2]) /\ KindOf(args) \notin supported_types
          => /\ ret' = Returned("register", name, None, "NotImplementedError")
             /\ registry' = registry]_vars

\* C14 witness: register('a', ...) raised while "a" was registered with 42
\* by a POST, and "a" still holds 42 as an int
C14_Witness ==
    /\ ret = Returned("register", "a", None, "NotImplementedError")
    /\ "a" \in DOMAIN registry
    /\ registry["a"] = [obj |-> PyInt(42), type |-> "int"]

\* C15 as stated: once stop() has been called on a server, no later
\* start() on the same instance brings a worker back to running.
C15_Original ==
    [][start /\ httpdt = "None" => ~(httpdt' = "thread" /\ running')]_vars

\* what the application registers "a" with where it is a list of lines
LineArgs == { <<PyList(<<Tx>>), "">>, <<PyTuple(<<Tx>>), "">> }

\* the fields a client submits for it: one line, or two
LineFields == { <<"a", Tx>>, <<"a", Tlines>> }

\* Lines.  The application registers "a" as a list or a tuple and reads it;
\* clients submit text of one or two lines.
NextLines ==
    \/ \E args \in LineArgs : register("a", args[1], args[2])
    \/ "a" \in DOMAIN registry /\ get("a")
    \/ start
    \/ client_connect
    \/ run_check
    \/ \E req \in PostRequests(LineFields) : do_POST_begin(req)
    \/ do_POST_parse
    \/ do_POST_entry
    \/ do_POST_convert
    \/ do_POST_send

SpecLines == Init /\ [][NextLines]_vars

\* C16 as stated: when a POST that carried non-empty text t for a list or
\* tuple entry is answered (the application has not touched the entry
\* since the POST wrote it), the entry holds the lines of t, split at the
\* newlines.
C16_Original ==
    [][do_POST_send
          => \A i \in 1..Len(items) :
                 (/\ items[i].type \in {"list", "tuple"}
                  /\ Carried(request, items[i].name) # <<>>
                  /\ Carried(request, items[i].name)[1] # <<>>
                  /\ WrittenLast(items[i].name))
                 => registry[items[i].name].obj.v
                        = Split(Carried(request, items[i].name)[1])]_vars

\* what the application registers "a" with where it is a dict
DictArgs == { <<PyDict(EmptyDict), "">> }

\* the fields a client submits for it: keys of one line or two, one value
DictFields == { <<"a_keys", Tx>>, <<"a_keys", Tlines>>, <<"a_values", T42>> }

\* A dict.  The application registers "a" as a dict and reads it; clients
\* submit its keys and values.
NextDict ==
    \/ \E args \in DictArgs : register("a", args[1], args[2])
    \/ "a" \in DOMAIN registry /\ get("a")
    \/ start
    \/ client_connect
    \/ run_check
    \/ \E req \in PostRequests(DictFields) : do_POST_begin(req)
    \/ do_POST_parse
    \/ do_POST_entry
    \/ do_POST_send

SpecDict == Init /\ [][NextDict]_vars

\* the form in service carries keys and values for name that split into
\* different numbers of lines
LinesMismatch(name) ==
    /\ Carried(request, KeysField(name)) # <<>>
    /\ Carried(request, ValuesField(name)) # <<>>
    /\ Len(Split(Carried(request, KeysField(name))[1]))
           # Len(Split(Carried(request, ValuesField(name))[1]))

\* C17 as stated: for a dict entry, keys and values of different numbers of
\* lines are a parse failure: the pass leaves the registry as it is and
\* adds a warning to the log.
C17_Original ==
    [][\A name \in Names :
          (/\ do_POST_entry
           /\ wpc = "post_loop"
           /\ idx <= Len(items)
           /\ items[idx].name = name
           /\ items[idx].type = "dict"
           /\ LinesMismatch(name))
          => /\ registry' = registry
             /\ Warnings' = Warnings + 1]_vars

\* a step of the worker inside do_POST
PostStep ==
    \/ \E req \in PostRequests(TwoFields) : do_POST_begin(req)
    \/ do_POST_parse
    \/ do_POST_entry
    \/ do_POST_convert
    \/ do_POST_send

\* the registry has the names and types the loop of do_POST runs over: no
\* call of the application has changed them since the loop began
SnapshotHolds ==
    /\ DOMAIN registry = {items[i].name : i \in 1..Len(items)}
    /\ \A i \in 1..Len(items) : registry[items[i].name].type = items[i].type

\* the form in service has no field for the entry of this name and type
FieldAbsent(name, type_) ==
    IF type_ = "dict"
    THEN \/ Carried(request, KeysField(name)) = <<>>
         \/ Carried(request, ValuesField(name)) = <<>>
    ELSE Carried(request, name) = <<>>

\* the loop of do_POST is at the entry of name
AtEntry(name) ==
    /\ wpc \in {"post_loop", "post_convert"}
    /\ idx <= Len(items)
    /\ items[idx].name = name

\* C18: a step of do_POST, with the registry's names and types as the
\* application left them when the loop began, adds no name, removes none
\* and changes no entry's type; it changes no entry but the one the loop is
\* at, and not that one either when the form has no field for it and its
\* type is not bool.
C18_PostKeepsNamesAndKinds ==
    [][PostStep /\ (wpc \in {"post_loop", "post_convert"} => SnapshotHolds)
          => /\ DOMAIN registry' = DOMAIN registry
             /\ \A name \in DOMAIN registry :
                    /\ registry'[name].type = registry[name].type
                    /\ (\/ ~AtEntry(name)
                        \/ /\ FieldAbsent(name, registry[name].type)
                           /\ registry[name].type # "bool")
                       => registry'[name] = registry[name]]_vars

\* C18 witness: with "a" = 1 alone registered, the loop of a POST of b=x
\* is through: no entry "b", and "a" as it was
C18_Witness ==
    /\ wpc = "post_loop"
    /\ idx = 2
    /\ Len(items) = 1
    /\ Carried(request, "b") = <<Tx>>
    /\ Carried(request, "a") = <<>>
    /\ DOMAIN registry = {"a"}
    /\ registry["a"] = [obj |-> PyInt(1), type |-> "int"]

\* C19 as stated, for a GET: once the request is served, last_contacted is
\* not older than the request, so not older than any message logged before
\* it.
C19_Original ==
    [][\A path \in Paths :
          do_GET(path)
          => \A msg \in DOMAIN messages : last_contacted' >= messages[msg][2]]_vars

\* updated() has just returned true to the application, and no POST has
\* begun since: the flag it cleared was that of the POST in service
FlagConsumed ==
    /\ ret = Returned("updated", "", PyBool(TRUE), "")
    /\ ~hist.posts

\* the POST in service has yet to store an object for name
StoreAhead(name) ==
    /\ wpc = "post_loop"
    /\ \E i \in idx..Len(items) : items[i].name = name /\ WillStore(i)

\* C20 as stated: when updated() has returned true, get(name) never reads
\* the value name had before the POST whose flag was consumed: that POST
\* has no store for name still ahead.
C20_Original ==
    [][\A name \in Names :
          get(name) /\ FlagConsumed => ~StoreAhead(name)]_vars

\* C21 as stated: a name that is not in the registry, as after
\* unregister(name) has returned, comes into it only by a register call of
\* the application; no step of a POST puts it back.
C21_Original ==
    [][\A name \in Names :
          name \notin DOMAIN registry /\ name \in DOMAIN registry'
          => hist'.reg[name] # <<>>]_vars

====
